---- MODULE Spec2Model ----
(***************************************************************************)
(* Model of the user permission check of package permission:               *)
(* the strategy registry (strategies, newUserPmsCheckStrategy), the two    *)
(* checkers (defaultChecker.Check, podTerminalChecker.Check) and the       *)
(* helpers they use (isRootUser, getCasbinItemsFromReqPermission).         *)
(* The collaborators of package pmsplugin and baseChecker are not part of  *)
(* the sources at hand; they are modelled at their interface, and what     *)
(* they answer during one check is drawn nondeterministically.             *)
(***************************************************************************)
EXTENDS Integers, Sequences, FiniteSets, TLC

VARIABLES
    strategies,  \* the package-level registry ObjectType -> SubResource -> checker
    callers,     \* the goroutines that call into the package
    pools,       \* which inputs the callers draw from: "all" or "conc"
    pc,          \* per caller: "idle", "selected" (holds a checker), "done" (Check returned)
    key,         \* per caller: the arguments of its newUserPmsCheckStrategy call
    checker,     \* per caller: the checker newUserPmsCheckStrategy returned
    req,         \* per caller: the ReqPermission passed to Check
    ans,         \* per caller: what the collaborators answer during this Check
    out          \* per caller: the error Check returned and the calls it made, in order

vars == <<strategies, callers, pools, pc, key, checker, req, ans, out>>

----------------------------------------------------------------------------
\* Bounds of the model.

MaxUserId == 1   \* user ids range over -1 .. MaxUserId
MaxActs == 1     \* Acts holds at most MaxActs action names
NumProcs == 2    \* concurrent callers of the concurrent specification

----------------------------------------------------------------------------
\* Values of package pmsplugin and of the error messages.

PrefixTable == "table"
PrefixRoute == "route"
PrefixUser == "user"
PrefixSubRsrc == "sub"
AppPodTerminal == "pod-terminal"
Separator == ":"
ActSeparator == ","
Wildcard == "*"
PermittedPrefixMap == {PrefixRoute, PrefixTable}
WriteActs == {"edit"}

Nil == "nil"
MsgNoPermission == "no permission"
MsgDomainLocked == "domain is locked"
MsgEngine == "engine error"
MsgEmptyField == "The UserId, ObjectType, ObjectIdx and SubRersource cannot be empty. "
MsgInvalidPrefix == "ReqPermission is invalid. "

DefaultChecker == "defaultChecker"
PodTerminalChecker == "podTerminalChecker"
NoChecker == "none"

----------------------------------------------------------------------------
\* The inputs.

UserIds == -1 .. MaxUserId
ObjectTypes == {"", PrefixRoute, PrefixTable, "unknown"}
ObjectIdxs == {"", "T1"}
SubResources == {"", AppPodTerminal, "read"}
ActNames == {"view", "edit"}
ActSeqs == UNION {[1 .. n -> ActNames] : n \in 0 .. MaxActs}
Domains == {<<"", "">>, <<"env", "prod">>}

Requests ==
    {[UserId |-> u, ObjectType |-> t, ObjectIdx |-> i, SubResource |-> s,
      Acts |-> a, DomainType |-> d[1], DomainId |-> d[2]] :
        u \in UserIds, t \in ObjectTypes, i \in ObjectIdxs, s \in SubResources,
        a \in ActSeqs, d \in Domains}

Keys == {[objType |-> t, subResource |-> s] : t \in ObjectTypes, s \in SubResources}

\* The smaller pools of the concurrent specification.
ConcRequests ==
    {[UserId |-> 1, ObjectType |-> t, ObjectIdx |-> "T1", SubResource |-> AppPodTerminal,
      Acts |-> <<"edit">>, DomainType |-> "env", DomainId |-> "prod"] :
        t \in {PrefixRoute, PrefixTable}}
ConcKeys ==
    {[objType |-> PrefixTable, subResource |-> s] : s \in {AppPodTerminal, "read"}}

\* What the collaborators answer during one check: the domain-lock lookup, the
\* root lookup of pmsplugin, and the policy engine (a boolean and an error).
EngineAnswers == [allowed : BOOLEAN, err : {Nil, MsgEngine}]
Answers == [locked : BOOLEAN, root : BOOLEAN, eng : EngineAnswers]

ZeroReq == [UserId |-> 0, ObjectType |-> "", ObjectIdx |-> "", SubResource |-> "",
            Acts |-> <<>>, DomainType |-> "", DomainId |-> ""]
ZeroKey == [objType |-> "", subResource |-> ""]
ZeroAns == [locked |-> FALSE, root |-> FALSE, eng |-> [allowed |-> FALSE, err |-> Nil]]
ZeroOut == [err |-> Nil, calls |-> <<>>]

----------------------------------------------------------------------------
\* The collaborators.

RECURSIVE Join(_, _)
Join(parts, sep) ==
    IF parts = <<>> THEN ""
    ELSE IF Len(parts) = 1 THEN parts[1]
    ELSE parts[1] \o sep \o Join(Tail(parts), sep)

\* pmsplugin.Assemble2CasbinStr: the parts joined by the separator; an error
\* when a part is empty.
Assemble2CasbinStr(parts) ==
    IF \E k \in DOMAIN parts : parts[k] = ""
    THEN [str |-> "", err |-> "empty part"]
    ELSE [str |-> Join(parts, Separator), err |-> Nil]

\* pmsplugin.JointActs2RuleActStr: the action names joined; "" for none.
JointActs2RuleActStr(acts) == Join(acts, ActSeparator)

\* The request asks for a write-class action.
IsWriteClass(acts) == \E k \in DOMAIN acts : acts[k] \in WriteActs

\* baseChecker.CheckDomLockIfActWrite: the domain-locked error when the
\* request asks for a write and the lookup reports the domain locked.
CheckDomLockIfActWrite(reqPms, locked) ==
    IF IsWriteClass(reqPms.Acts) /\ locked THEN MsgDomainLocked ELSE Nil

\* pmsplugin.Enforce: one tuple, delegated to the engine.
Enforce(items, eng) == [passed |-> eng.allowed, err |-> eng.err]

\* pmsplugin.EnforceOneInMany: true at the first rule the engine allows;
\* an engine error is returned only when no rule matched.
RECURSIVE EnforceFrom(_, _, _, _)
EnforceFrom(rules, engs, k, err) ==
    IF k > Len(rules) THEN [passed |-> FALSE, err |-> err]
    ELSE IF engs[k].allowed THEN [passed |-> TRUE, err |-> Nil]
    ELSE EnforceFrom(rules, engs, k + 1, IF err = Nil THEN engs[k].err ELSE err)

EnforceOneInMany(rules, engs) == EnforceFrom(rules, engs, 1, Nil)

----------------------------------------------------------------------------
\* The registry.

StrategiesInit == (PrefixTable :> (AppPodTerminal :> PodTerminalChecker))

\* (mutant) the sub-resource is not looked up: any sub-resource of a
\* registered object type gets the registered checker.
newUserPmsCheckStrategy_AnySub(m, objType, subResource) ==
    IF objType \notin DOMAIN m THEN DefaultChecker
    ELSE m[objType][CHOOSE s \in DOMAIN m[objType] : TRUE]

newUserPmsCheckStrategy(m, objType, subResource) ==
    IF objType \notin DOMAIN m THEN DefaultChecker
    ELSE IF subResource \notin DOMAIN m[objType] THEN DefaultChecker
    ELSE m[objType][subResource]

----------------------------------------------------------------------------
\* The private helpers.

isRootUser(uid, root) == IF uid <= 0 THEN FALSE ELSE root

getCasbinItemsFromReqPermission(reqPms) ==
    LET none == [ReqSub |-> "", ReqObj |-> "", ReqAct |-> "", ReqDom |-> ""]
    IN  IF \/ reqPms.UserId = 0
           \/ reqPms.ObjectType = ""
           \/ reqPms.ObjectIdx = ""
           \/ reqPms.SubResource = ""
        THEN [items |-> none, err |-> MsgEmptyField]
        ELSE IF reqPms.ObjectType \notin PermittedPrefixMap
        THEN [items |-> none,
              err |-> "ObjectType(" \o reqPms.ObjectType \o ") is invalid"]
        ELSE LET reqSub == Assemble2CasbinStr(<<PrefixUser, ToString(reqPms.UserId)>>).str
                 reqObj == Assemble2CasbinStr(<<reqPms.ObjectType, reqPms.ObjectIdx,
                                                PrefixSubRsrc, reqPms.SubResource>>).str
                 acts   == JointActs2RuleActStr(reqPms.Acts)
                 reqAct == IF acts = "" THEN Wildcard ELSE acts
                 dom    == Assemble2CasbinStr(<<reqPms.DomainType, reqPms.DomainId>>)
                 reqDom == IF dom.err # Nil THEN Wildcard ELSE dom.str
             IN  [items |-> [ReqSub |-> reqSub, ReqObj |-> reqObj,
                             ReqAct |-> reqAct, ReqDom |-> reqDom],
                  err |-> Nil]

----------------------------------------------------------------------------
\* The checkers. A Check returns the error (Nil: permitted) and the calls it
\* made to its collaborators and helpers, in the order it made them.

StepLock == "lock"
StepRoot == "root"
StepCanon == "canon"
StepEnforce == "enforce"
Pipeline == <<StepLock, StepRoot, StepCanon, StepEnforce>>

Call(step, ok, err) == [step |-> step, ok |-> ok, err |-> err]
Ret(err, calls) == [err |-> err, calls |-> calls]

\* (mutant) the root lookup is made before the domain-lock gate.
defaultCheckerCheck_RootFirst(reqPms, a) ==
    LET lockErr == CheckDomLockIfActWrite(reqPms, a.locked)
        isRoot  == isRootUser(reqPms.UserId, a.root)
        r       == getCasbinItemsFromReqPermission(reqPms)
        e       == EnforceOneInMany(<<r.items>>, <<a.eng>>)
        cRoot   == <<Call(StepRoot, isRoot, Nil)>>
        cLock   == Append(cRoot, Call(StepLock, lockErr = Nil, lockErr))
        cCanon  == Append(cLock, Call(StepCanon, r.err = Nil, r.err))
        cEnf    == Append(cCanon, Call(StepEnforce, e.passed, e.err))
    IN  IF reqPms.ObjectType = PrefixRoute THEN Ret(Nil, <<>>)
        ELSE IF isRoot THEN Ret(Nil, cRoot)
        ELSE IF lockErr # Nil THEN Ret(lockErr, cLock)
        ELSE IF r.err # Nil THEN Ret(MsgInvalidPrefix \o r.err, cCanon)
        ELSE IF ~e.passed THEN Ret(MsgNoPermission, cEnf)
        ELSE Ret(Nil, cEnf)

\* (mutant) the route bypass is tested after the domain-lock gate.
defaultCheckerCheck_LateRoute(reqPms, a) ==
    LET lockErr == CheckDomLockIfActWrite(reqPms, a.locked)
        isRoot  == isRootUser(reqPms.UserId, a.root)
        r       == getCasbinItemsFromReqPermission(reqPms)
        e       == EnforceOneInMany(<<r.items>>, <<a.eng>>)
        cLock   == <<Call(StepLock, lockErr = Nil, lockErr)>>
        cRoot   == Append(cLock, Call(StepRoot, isRoot, Nil))
        cCanon  == Append(cRoot, Call(StepCanon, r.err = Nil, r.err))
        cEnf    == Append(cCanon, Call(StepEnforce, e.passed, e.err))
    IN  IF lockErr # Nil THEN Ret(lockErr, cLock)
        ELSE IF reqPms.ObjectType = PrefixRoute THEN Ret(Nil, cLock)
        ELSE IF isRoot THEN Ret(Nil, cRoot)
        ELSE IF r.err # Nil THEN Ret(MsgInvalidPrefix \o r.err, cCanon)
        ELSE IF ~e.passed THEN Ret(MsgNoPermission, cEnf)
        ELSE Ret(Nil, cEnf)

\* (mutant) the error of the domain-lock gate is dropped.
defaultCheckerCheck_IgnoreLock(reqPms, a) ==
    LET lockErr == CheckDomLockIfActWrite(reqPms, a.locked)
        isRoot  == isRootUser(reqPms.UserId, a.root)
        r       == getCasbinItemsFromReqPermission(reqPms)
        e       == EnforceOneInMany(<<r.items>>, <<a.eng>>)
        cLock   == <<Call(StepLock, lockErr = Nil, lockErr)>>
        cRoot   == Append(cLock, Call(StepRoot, isRoot, Nil))
        cCanon  == Append(cRoot, Call(StepCanon, r.err = Nil, r.err))
        cEnf    == Append(cCanon, Call(StepEnforce, e.passed, e.err))
    IN  IF reqPms.ObjectType = PrefixRoute THEN Ret(Nil, <<>>)
        ELSE IF isRoot THEN Ret(Nil, cRoot)
        ELSE IF r.err # Nil THEN Ret(MsgInvalidPrefix \o r.err, cCanon)
        ELSE IF ~e.passed THEN Ret(MsgNoPermission, cEnf)
        ELSE Ret(Nil, cEnf)

defaultCheckerCheck(reqPms, a) ==
    LET lockErr == CheckDomLockIfActWrite(reqPms, a.locked)
        isRoot  == isRootUser(reqPms.UserId, a.root)
        r       == getCasbinItemsFromReqPermission(reqPms)
        e       == EnforceOneInMany(<<r.items>>, <<a.eng>>)
        cLock   == <<Call(StepLock, lockErr = Nil, lockErr)>>
        cRoot   == Append(cLock, Call(StepRoot, isRoot, Nil))
        cCanon  == Append(cRoot, Call(StepCanon, r.err = Nil, r.err))
        cEnf    == Append(cCanon, Call(StepEnforce, e.passed, e.err))
    IN  IF reqPms.ObjectType = PrefixRoute THEN Ret(Nil, <<>>)
        ELSE IF lockErr # Nil THEN Ret(lockErr, cLock)
        ELSE IF isRoot THEN Ret(Nil, cRoot)
        ELSE IF r.err # Nil THEN Ret(MsgInvalidPrefix \o r.err, cCanon)
        ELSE IF ~e.passed THEN Ret(MsgNoPermission, cEnf)
        ELSE Ret(Nil, cEnf)

\* (mutant) the root test is inverted: a root user goes on to the policy check.
podTerminalCheckerCheck_NoRootBypass(reqPms, a) ==
    LET lockErr == CheckDomLockIfActWrite(reqPms, a.locked)
        isRoot  == isRootUser(reqPms.UserId, a.root)
        r       == getCasbinItemsFromReqPermission(reqPms)
        e       == Enforce(r.items, a.eng)
        cLock   == <<Call(StepLock, lockErr = Nil, lockErr)>>
        cRoot   == Append(cLock, Call(StepRoot, isRoot, Nil))
        cCanon  == Append(cRoot, Call(StepCanon, r.err = Nil, r.err))
        cEnf    == Append(cCanon, Call(StepEnforce, e.passed, e.err))
    IN  IF lockErr # Nil THEN Ret(lockErr, cLock)
        ELSE IF ~isRoot THEN Ret(Nil, cRoot)
        ELSE IF r.err # Nil THEN Ret(MsgInvalidPrefix \o r.err, cCanon)
        ELSE IF ~e.passed THEN Ret(MsgNoPermission, cEnf)
        ELSE Ret(Nil, cEnf)

\* (mutant) an engine error denies, whatever the engine's boolean.
podTerminalCheckerCheck_ErrDenies(reqPms, a) ==
    LET lockErr == CheckDomLockIfActWrite(reqPms, a.locked)
        isRoot  == isRootUser(reqPms.UserId, a.root)
        r       == getCasbinItemsFromReqPermission(reqPms)
        e       == Enforce(r.items, a.eng)
        cLock   == <<Call(StepLock, lockErr = Nil, lockErr)>>
        cRoot   == Append(cLock, Call(StepRoot, isRoot, Nil))
        cCanon  == Append(cRoot, Call(StepCanon, r.err = Nil, r.err))
        cEnf    == Append(cCanon, Call(StepEnforce, e.passed, e.err))
    IN  IF lockErr # Nil THEN Ret(lockErr, cLock)
        ELSE IF isRoot THEN Ret(Nil, cRoot)
        ELSE IF r.err # Nil THEN Ret(MsgInvalidPrefix \o r.err, cCanon)
        ELSE IF e.err # Nil \/ ~e.passed THEN Ret(MsgNoPermission, cEnf)
        ELSE Ret(Nil, cEnf)

podTerminalCheckerCheck(reqPms, a) ==
    LET lockErr == CheckDomLockIfActWrite(reqPms, a.locked)
        isRoot  == isRootUser(reqPms.UserId, a.root)
        r       == getCasbinItemsFromReqPermission(reqPms)
        e       == Enforce(r.items, a.eng)
        cLock   == <<Call(StepLock, lockErr = Nil, lockErr)>>
        cRoot   == Append(cLock, Call(StepRoot, isRoot, Nil))
        cCanon  == Append(cRoot, Call(StepCanon, r.err = Nil, r.err))
        cEnf    == Append(cCanon, Call(StepEnforce, e.passed, e.err))
    IN  IF lockErr # Nil THEN Ret(lockErr, cLock)
        ELSE IF isRoot THEN Ret(Nil, cRoot)
        ELSE IF r.err # Nil THEN Ret(MsgInvalidPrefix \o r.err, cCanon)
        ELSE IF ~e.passed THEN Ret(MsgNoPermission, cEnf)
        ELSE Ret(Nil, cEnf)

\* UserPmsChecker.Check, dispatched on the checker's type.
UserPmsCheckerCheck(c, reqPms, a) ==
    IF c = PodTerminalChecker THEN podTerminalCheckerCheck(reqPms, a)
    ELSE defaultCheckerCheck(reqPms, a)

----------------------------------------------------------------------------
\* The state machine.

Procs == 1 .. NumProcs

\* The (objType, subResource) pairs callers select with, the requests they check.
keyPool == IF pools = "all" THEN Keys ELSE ConcKeys
reqPool == IF pools = "all" THEN Requests ELSE ConcRequests

InitCallers ==
    /\ strategies = StrategiesInit
    /\ pc = [p \in Procs |-> "idle"]
    /\ key = [p \in Procs |-> ZeroKey]
    /\ checker = [p \in Procs |-> NoChecker]
    /\ req = [p \in Procs |-> ZeroReq]
    /\ ans = [p \in Procs |-> ZeroAns]
    /\ out = [p \in Procs |-> ZeroOut]

\* One caller, every request and every pair of strings of the input sets.
Init ==
    /\ callers = {1}
    /\ pools = "all"
    /\ InitCallers

\* NumProcs concurrent callers, on the smaller pools.
InitConc ==
    /\ callers = Procs
    /\ pools = "conc"
    /\ InitCallers

\* (mutant) a missed lookup stores the default checker in the registry.
Select_CachesMiss(p) ==
    /\ pc[p] = "idle"
    /\ \E k \in keyPool :
        LET c == newUserPmsCheckStrategy(strategies, k.objType, k.subResource)
            sub == IF k.objType \in DOMAIN strategies
                   THEN strategies[k.objType] ELSE <<>>
        IN  /\ key' = [key EXCEPT ![p] = k]
            /\ checker' = [checker EXCEPT ![p] = c]
            /\ strategies' = IF c = DefaultChecker
                             THEN (k.objType :> ((k.subResource :> c) @@ sub)) @@ strategies
                             ELSE strategies
    /\ pc' = [pc EXCEPT ![p] = "selected"]
    /\ UNCHANGED <<callers, pools, req, ans, out>>

\* A caller obtains a checker: newUserPmsCheckStrategy(objType, subResource).
Select(p) ==
    /\ pc[p] = "idle"
    /\ \E k \in keyPool :
        /\ key' = [key EXCEPT ![p] = k]
        /\ checker' = [checker EXCEPT ![p] =
                          newUserPmsCheckStrategy(strategies, k.objType, k.subResource)]
    /\ pc' = [pc EXCEPT ![p] = "selected"]
    /\ UNCHANGED <<strategies, callers, pools, req, ans, out>>

\* The caller runs Check of its checker on a request; the collaborators answer.
\* The arguments of the selection are out of scope by then.
Check(p) ==
    /\ pc[p] = "selected"
    /\ \E reqPms \in reqPool, a \in Answers :
        /\ req' = [req EXCEPT ![p] = reqPms]
        /\ ans' = [ans EXCEPT ![p] = a]
        /\ out' = [out EXCEPT ![p] = UserPmsCheckerCheck(checker[p], reqPms, a)]
    /\ pc' = [pc EXCEPT ![p] = "done"]
    /\ key' = [key EXCEPT ![p] = ZeroKey]
    /\ UNCHANGED <<strategies, callers, pools, checker>>

\* The caller takes the result; the request and the checker reference are dropped.
Return(p) ==
    /\ pc[p] = "done"
    /\ pc' = [pc EXCEPT ![p] = "idle"]
    /\ key' = key
    /\ checker' = [checker EXCEPT ![p] = NoChecker]
    /\ req' = [req EXCEPT ![p] = ZeroReq]
    /\ ans' = [ans EXCEPT ![p] = ZeroAns]
    /\ out' = [out EXCEPT ![p] = ZeroOut]
    /\ UNCHANGED <<strategies, callers, pools>>

Next == \E p \in callers : Select(p) \/ Check(p) \/ Return(p)

Spec == Init /\ [][Next]_vars
SpecConc == InitConc /\ [][Next]_vars

----------------------------------------------------------------------------
\* What the claims speak of.

Done(p) == pc[p] = "done"
Called(p, step) == \E k \in DOMAIN out[p].calls : out[p].calls[k].step = step
CallOf(p, step) ==
    out[p].calls[CHOOSE k \in DOMAIN out[p].calls : out[p].calls[k].step = step]
StepsOf(p) == [k \in DOMAIN out[p].calls |-> out[p].calls[k].step]

\* The errors Check returns for a request it could not canonicalize.
ValidationErrors ==
    {MsgInvalidPrefix \o MsgEmptyField} \cup
    {MsgInvalidPrefix \o "ObjectType(" \o t \o ") is invalid" : t \in ObjectTypes}

\* The request is a route request handled by the default checker.
RouteBypassed(p) == checker[p] = DefaultChecker /\ req[p].ObjectType = PrefixRoute
\* What the domain-lock gate and the root lookup answer for the request.
GateErr(p) == CheckDomLockIfActWrite(req[p], ans[p].locked)
RootAnswer(p) == isRootUser(req[p].UserId, ans[p].root)
CanonErr(p) == getCasbinItemsFromReqPermission(req[p]).err

\* C1 (as stated): whenever the root lookup returns true for the request's
\* UserId, the check returns nil, whatever the domain-lock state.
C1_RootAlwaysPermitted ==
    \A p \in callers : Done(p) /\ RootAnswer(p) => out[p].err = Nil

\* C1 (amended): whenever the root lookup returns true for the request's UserId,
\* the check returns nil if the domain-lock gate returns no error or the request
\* is a route request under the default checker; otherwise it returns the
\* gate's error.
C1_RootPermittedUnlessLocked ==
    \A p \in callers :
        Done(p) /\ RootAnswer(p) =>
            IF RouteBypassed(p) \/ GateErr(p) = Nil
            THEN out[p].err = Nil
            ELSE out[p].err = GateErr(p)

\* A root user is permitted by the bypass although the engine would deny.
C1_Witness ==
    \E p \in callers :
        /\ Done(p) /\ RootAnswer(p) /\ ~RouteBypassed(p)
        /\ GateErr(p) = Nil /\ CanonErr(p) = Nil /\ ~ans[p].eng.allowed
        /\ out[p].err = Nil
        /\ StepsOf(p) = <<StepLock, StepRoot>>

\* C2 (as stated): a write-class request on a domain reported locked gets the
\* domain-locked error under either checker and every ObjectType, and the
\* policy engine is not invoked.
C2_LockedWriteRejected ==
    \A p \in callers :
        Done(p) /\ IsWriteClass(req[p].Acts) /\ ans[p].locked =>
            out[p].err = MsgDomainLocked /\ ~Called(p, StepEnforce)

\* C2 (amended): a write-class request on a domain reported locked never gets
\* the policy engine invoked; it gets the domain-locked error, except a route
\* request under the default checker, which is permitted.
C2_LockedWriteRejectedUnlessRoute ==
    \A p \in callers :
        Done(p) /\ IsWriteClass(req[p].Acts) /\ ans[p].locked =>
            /\ ~Called(p, StepEnforce)
            /\ IF RouteBypassed(p)
               THEN out[p].err = Nil
               ELSE out[p].err = MsgDomainLocked

\* A locked write of a root user the engine would allow is rejected at the gate.
C2_Witness ==
    \E p \in callers :
        /\ Done(p) /\ IsWriteClass(req[p].Acts) /\ ans[p].locked
        /\ ~RouteBypassed(p) /\ RootAnswer(p) /\ ans[p].eng.allowed
        /\ out[p].err = MsgDomainLocked
        /\ StepsOf(p) = <<StepLock>>

\* C3 (as stated): every request with UserId <= 0 gets a validation error,
\* whatever its other fields, the checker and the collaborators' answers.
C3_NonPositiveUserIdInvalid ==
    \A p \in callers :
        Done(p) /\ req[p].UserId <= 0 => out[p].err \in ValidationErrors

\* C4 (as stated): whenever the policy engine call made during a check
\* returns an error, the check returns a denial and never nil.
C4_FailClosed ==
    \A p \in callers :
        Done(p) /\ Called(p, StepEnforce) /\ CallOf(p, StepEnforce).err # Nil =>
            out[p].err # Nil

\* C5: newUserPmsCheckStrategy returns a checker for every pair of strings: the
\* podTerminalChecker exactly for (table prefix, pod-terminal tag), the
\* defaultChecker for every other pair.
C5_Selection ==
    \A p \in callers :
        pc[p] = "selected" =>
            /\ checker[p] # NoChecker
            /\ checker[p] =
                  IF key[p].objType = PrefixTable /\ key[p].subResource = AppPodTerminal
                  THEN PodTerminalChecker
                  ELSE DefaultChecker

\* A registered object type with an unregistered sub-resource falls back.
C5_Witness ==
    \E p \in callers :
        /\ pc[p] = "selected"
        /\ key[p].objType = PrefixTable /\ key[p].subResource = "read"
        /\ checker[p] = DefaultChecker

\* C6 (as stated): canonicalization fails exactly for the requests with
\* UserId <= 0, or an empty ObjectType, ObjectIdx or SubResource, or an
\* ObjectType outside the permitted set.
C6_CanonicalizeValidates ==
    \A p \in callers :
        Done(p) /\ Called(p, StepCanon) =>
            (CallOf(p, StepCanon).err # Nil <=>
                \/ req[p].UserId <= 0
                \/ req[p].ObjectType = ""
                \/ req[p].ObjectIdx = ""
                \/ req[p].SubResource = ""
                \/ req[p].ObjectType \notin PermittedPrefixMap)

\* The request reaches the enforce step.
ReachesEnforce(p) ==
    /\ ~RouteBypassed(p)
    /\ GateErr(p) = Nil
    /\ ~RootAnswer(p)
    /\ CanonErr(p) = Nil

\* C7: for a request that reaches the enforce step the engine's boolean alone
\* gives the verdict: nil exactly when it is true, the no-permission error
\* exactly when it is false.
C7_EngineBooleanDecides ==
    \A p \in callers :
        Done(p) /\ ReachesEnforce(p) =>
            /\ Called(p, StepEnforce)
            /\ out[p].err = Nil <=> CallOf(p, StepEnforce).ok
            /\ out[p].err = MsgNoPermission <=> ~CallOf(p, StepEnforce).ok

\* The engine answers true together with an error and the check permits.
C7_Witness ==
    \E p \in callers :
        /\ Done(p) /\ ReachesEnforce(p)
        /\ CallOf(p, StepEnforce).ok /\ CallOf(p, StepEnforce).err # Nil
        /\ out[p].err = Nil

\* What belongs to one caller.
Own(p) == <<pc[p], key[p], checker[p], req[p], ans[p], out[p]>>

\* C8: the registry keeps its initial value through every interleaving of
\* selections and checks, and a step of one caller writes nothing another
\* caller reads.
C8_RegistryReadOnly ==
    /\ [](strategies = StrategiesInit)
    /\ [][\A p, q \in callers : p # q => Own(p)' = Own(p) \/ Own(q)' = Own(q)]_vars

\* Two callers hold different checkers, one inside a selection's result and
\* one with a finished check.
C8_Witness ==
    \E p, q \in callers :
        /\ p # q /\ Done(p) /\ pc[q] = "selected"
        /\ checker[p] = DefaultChecker /\ checker[q] = PodTerminalChecker
        /\ out[p].err = MsgNoPermission

\* The verdict of the full pipeline lock / root / canonicalize / enforce.
PipelineVerdict(p) ==
    IF GateErr(p) # Nil THEN GateErr(p)
    ELSE IF RootAnswer(p) THEN Nil
    ELSE IF CanonErr(p) # Nil THEN MsgInvalidPrefix \o CanonErr(p)
    ELSE IF ~ans[p].eng.allowed THEN MsgNoPermission
    ELSE Nil

\* C9: the default checker permits every route request without consulting
\* the gate, the root lookup, the canonicalizer or the engine; the pod-terminal
\* checker has no bypass and runs the full pipeline on a route request.
C9_RouteBypassDefaultOnly ==
    \A p \in callers :
        Done(p) /\ req[p].ObjectType = PrefixRoute =>
            IF checker[p] = DefaultChecker
            THEN out[p].err = Nil /\ out[p].calls = <<>>
            ELSE /\ out[p].calls # <<>>
                 /\ out[p].calls[1].step = StepLock
                 /\ out[p].err = PipelineVerdict(p)

\* A locked write with no UserId passes the default checker as a route request.
C9_Witness ==
    \E p \in callers :
        /\ Done(p) /\ checker[p] = DefaultChecker
        /\ req[p].ObjectType = PrefixRoute /\ req[p].UserId = 0
        /\ IsWriteClass(req[p].Acts) /\ ans[p].locked
        /\ out[p].err = Nil

\* The pod-terminal checker rejects a route request at the gate.
C9_WitnessPodTerminal ==
    \E p \in callers :
        /\ Done(p) /\ checker[p] = PodTerminalChecker
        /\ req[p].ObjectType = PrefixRoute
        /\ out[p].err = MsgDomainLocked

\* C10: the calls of a check are a prefix of lock, root, canonicalize,
\* enforce, ending at the first step that decides; the engine is invoked at
\* most once and only after the gate passed, the root lookup said no and the
\* canonicalization succeeded; a failed canonicalization returns the
\* validation error.
C10_StepOrder ==
    \A p \in callers :
        Done(p) =>
            LET c == out[p].calls
                n == Len(c)
            IN  /\ n <= Len(Pipeline)
                /\ StepsOf(p) = SubSeq(Pipeline, 1, n)
                /\ Cardinality({k \in DOMAIN c : c[k].step = StepEnforce}) <= 1
                /\ n >= 1 /\ ~c[1].ok => n = 1 /\ out[p].err = c[1].err
                /\ n >= 2 /\ c[2].ok => n = 2 /\ out[p].err = Nil
                /\ n >= 3 /\ ~c[3].ok => n = 3 /\ out[p].err \in ValidationErrors
                /\ n = 4 => c[1].ok /\ ~c[2].ok /\ c[3].ok
                /\ RouteBypassed(p) \/ n >= 1

\* A check that went through all four steps and was denied by the engine.
C10_Witness ==
    \E p \in callers :
        /\ Done(p)
        /\ StepsOf(p) = Pipeline
        /\ out[p].err = MsgNoPermission

\* A check that stopped at a failed canonicalization.
C10_WitnessCanonFails ==
    \E p \in callers :
        /\ Done(p)
        /\ StepsOf(p) = <<StepLock, StepRoot, StepCanon>>
        /\ out[p].err \in ValidationErrors

====
